---- MODULE Spec2Model ----
(***************************************************************************)
(* Model of tools/web_search_tool.py: the SearchCache, the RateLimiter and *)
(* exa_web_search, the facade that composes them around the Exa provider.  *)
(*                                                                         *)
(* Time is counted in hours (one Tick = one hour).  A timedelta of h hours *)
(* is h units, a timedelta of m minutes is compared through                *)
(* MinutesPerHour.  Strings that the code transforms (queries, cache keys) *)
(* are sequences of one-character strings, so that strip(), lower() and    *)
(* the f-string of the cache key are computed, not assumed.  hashlib.md5   *)
(* is taken to be injective: the hash of a string is the string itself.    *)
(*                                                                         *)
(* Every caller runs one operation at a time, as a sequence of steps whose *)
(* position is call[c].pc.  The steps of SearchCache.get, SearchCache.set, *)
(* RateLimiter.can_make_request and RateLimiter.record_request are shared  *)
(* by the direct calls and by exa_web_search, which calls them.  In        *)
(* SpecCache, SpecLimiter, Spec and SpecClamp the calls are made one at a  *)
(* time; in SpecCacheConc and SpecConc two sessions run their calls at the *)
(* same time, their steps interleaved in every order.                      *)
(*                                                                         *)
(* SpecProfile models the chat handlers of agent.py with the profile and   *)
(* goal tools that run under them: the per-chat cl.user_session, the       *)
(* user_profiles and goals tables of tools/data_manager.py and the mem0    *)
(* memories, keyed by session id.  There one Tick is one step of SQLite's  *)
(* CURRENT_TIMESTAMP.                                                      *)
(***************************************************************************)
EXTENDS Integers, Sequences, FiniteSets, TLC

VARIABLES
    cache,            \* SearchCache.cache: entries in dict order
    last_cleanup,     \* SearchCache.last_cleanup
    max_size,         \* SearchCache.max_size
    ttl_hours,        \* SearchCache.ttl_hours
    requests,         \* RateLimiter.requests
    max_requests,     \* RateLimiter.max_requests
    window_minutes,   \* RateLimiter.window_minutes
    api_key,          \* whether EXA_API_KEY is set in the environment
    now,              \* the clock read by datetime.now()
    call,             \* per caller: the frame of the operation in progress
    recorded,         \* history: every timestamp record_request appended
    remFetch,         \* history: one earlier successful fetch, remembered
    remEvicted,       \* history: the remembered fetch's entry was evicted
    last_set,         \* history: the latest direct set(query, result)
                      \* (call[c].trace, .started_at, .after_rem, .cache0,
                      \* .cacheMid, .requests0, .last_cleanup0,
                      \* .recorded0, .wrote, .wrote_at and .swept are
                      \* history too: what the call did, what it found
                      \* when it started, and its rank among the calls
                      \* that are writing to the cache)
    user_profiles,    \* table user_profiles: session id -> row, or NoneV
    goals,            \* table goals: the rows, in insertion order
    memories,         \* mem0: user id -> the names told to it; NoneV when
                      \* memory_manager.memory_client is None
    user_session,     \* per chat: cl.user_session, a dict
    chat              \* per chat: the handler's position, the pending
                      \* function call, and history (.sent, .result,
                      \* .session_id, .goals0, .auto_name,
                      \* .auto_key, .touched, .greeted)

vars == <<cache, last_cleanup, max_size, ttl_hours, requests, max_requests,
          window_minutes, api_key, now, call, recorded, remFetch, remEvicted,
          last_set, user_profiles, goals, memories, user_session, chat>>

\* the state of the chats, the database and the memory service
Assistant == <<user_profiles, goals, memories, user_session, chat>>

-----------------------------------------------------------------------------
(* Bounds of the model *)

MaxTime == 2
MaxSize == 2
MaxRecords == 2
MaxRows == 2
MaxMessages == 2

\* calls are made one at a time: there is one caller
Callers == {1}

(* Program constants *)

DefaultMaxSize == 100
DefaultTtlHours == 24
DefaultMaxRequests == 20
DefaultWindowMinutes == 60
CleanupCooldownHours == 1
MinutesPerHour == 60
max_retries == 3
MinResults == 1
MaxResults == 10
BackoffBase == 2

(* Configurations explored besides the defaults *)

TtlChoices == {0, 1}
CacheTtlChoices == {0, 1, 2}
MaxRequestsChoices == {1, 2}
WindowChoices == {60, 120}

-----------------------------------------------------------------------------
(* Strings *)

Whitespace == {" "}

LowerChar(ch) ==
    CASE ch = "A" -> "a"
      [] ch = "B" -> "b"
      [] ch = "T" -> "t"
      [] ch = "F" -> "f"
      [] ch = "I" -> "i"
      [] OTHER -> ch

Lower(s) == [i \in 1..Len(s) |-> LowerChar(s[i])]

RECURSIVE LStrip(_)
LStrip(s) ==
    IF s # <<>> /\ Head(s) \in Whitespace THEN LStrip(Tail(s)) ELSE s

RECURSIVE RStrip(_)
RStrip(s) ==
    IF s # <<>> /\ s[Len(s)] \in Whitespace
    THEN RStrip(SubSeq(s, 1, Len(s) - 1))
    ELSE s

Strip(s) == RStrip(LStrip(s))

Digits == <<"0", "1", "2", "3", "4", "5", "6", "7", "8", "9">>

RECURSIVE StrInt(_)
StrInt(n) ==
    IF n < 0 THEN <<"-">> \o StrInt(-n)
    ELSE IF n < 10 THEN <<Digits[n + 1]>>
    ELSE StrInt(n \div 10) \o <<Digits[(n % 10) + 1]>>

StrBool(b) ==
    IF b THEN <<"T", "r", "u", "e">> ELSE <<"F", "a", "l", "s", "e">>

Min2(a, b) == IF a < b THEN a ELSE b
Max2(a, b) == IF a > b THEN a ELSE b

RECURSIVE Pow(_, _)
Pow(b, n) == IF n = 0 THEN 1 ELSE b * Pow(b, n - 1)

NoneV == [none |-> TRUE]

Truthy(x) == x # NoneV

-----------------------------------------------------------------------------
(* SearchCache *)
\* variant: the key is hashed without lower-casing it
query_hash_exact(query) == query

query_hash(query) == Lower(query)

CacheKeys(c) == {c[i].key : i \in 1..Len(c)}

\* the index of key k in the dict, 0 when absent
IndexOf(c, k) ==
    IF k \in CacheKeys(c) THEN CHOOSE i \in 1..Len(c) : c[i].key = k ELSE 0

RemoveAt(c, i) == SubSeq(c, 1, i - 1) \o SubSeq(c, i + 1, Len(c))

\* variant: the sweep deletes nothing
KeepLiveAll(c, t, ttl) == c

RECURSIVE KeepLive(_, _, _)
KeepLive(c, t, ttl) ==
    IF c = <<>> THEN <<>>
    ELSE IF t - Head(c).timestamp > ttl
         THEN KeepLive(Tail(c), t, ttl)
         ELSE <<Head(c)>> \o KeepLive(Tail(c), t, ttl)

\* variant: the sweep is not gated
CleanupDueAlways(t, last) == TRUE

CleanupDue(t, last) == ~(t - last < CleanupCooldownHours)
\* variant: min() replaced by max(): the youngest entry
NewestIndex(c) ==
    CHOOSE i \in 1..Len(c) :
        /\ \A j \in 1..Len(c) : c[i].timestamp >= c[j].timestamp
        /\ \A j \in 1..(i - 1) : c[j].timestamp < c[i].timestamp

\* min(self.cache.keys(), key=...): the first entry in dict order whose
\* timestamp no other entry undercuts
OldestIndex(c) ==
    CHOOSE i \in 1..Len(c) :
        /\ \A j \in 1..Len(c) : c[i].timestamp <= c[j].timestamp
        /\ \A j \in 1..(i - 1) : c[j].timestamp > c[i].timestamp
\* variant: > instead of >=
CacheFullOffByOne(c, m) == Len(c) > m

CacheFull(c, m) == Len(c) >= m
\* variant: <= instead of <
FreshInclusive(t, timestamp, ttl) == t - timestamp <= ttl

Fresh(t, timestamp, ttl) == t - timestamp < ttl
\* variant: the assignment is skipped
StoreDropped(c, k, v, t) == c

\* variant: an entry that exists is kept (setdefault)
StoreNoOverwrite(c, k, v, t) ==
    IF k \in CacheKeys(c)
    THEN c
    ELSE Append(c, [key |-> k, result |-> v, timestamp |-> t])

\* self.cache[query_hash] = (result, datetime.now())
Store(c, k, v, t) ==
    LET e == [key |-> k, result |-> v, timestamp |-> t]
    IN IF k \in CacheKeys(c)
       THEN [c EXCEPT ![IndexOf(c, k)] = e]
       ELSE Append(c, e)

-----------------------------------------------------------------------------
(* RateLimiter *)
\* variant: <= instead of <
InWindowInclusive(t, req_time, w) == (t - req_time) * MinutesPerHour <= w

InWindow(t, req_time, w) == (t - req_time) * MinutesPerHour < w

\* variant: nothing is pruned
PruneNothing(reqs, t, w) == reqs

Prune(reqs, t, w) == SelectSeq(reqs, LAMBDA r : InWindow(t, r, w))
\* variant: <= instead of <
AdmitsInclusive(reqs, m) == Len(reqs) <= m

Admits(reqs, m) == Len(reqs) < m

-----------------------------------------------------------------------------
(* Frames *)

Idle ==
    [pc |-> "idle", op |-> "none",
     raw_query |-> <<>>, raw_num |-> 0,
     query |-> <<>>, num_results |-> 0, include_content |-> FALSE,
     cache_key |-> <<>>, result_json |-> NoneV, cached_result |-> NoneV,
     current_time |-> 0, pruned |-> <<>>, admitted |-> FALSE,
     attempt |-> 0, search_response |-> NoneV, e |-> NoneV,
     ret |-> NoneV,
     trace |-> <<>>, started_at |-> 0, after_rem |-> FALSE,
     cache0 |-> <<>>, cacheMid |-> <<>>, requests0 |-> <<>>,
     last_cleanup0 |-> 0, recorded0 |-> 0,
     wrote |-> 0, wrote_at |-> 0, swept |-> FALSE]

AllIdle == \A c \in DOMAIN call : call[c].pc = "idle"

\* the frame of a call that starts now: the shared state is snapshotted
Enter(op) ==
    [Idle EXCEPT !.op = op, !.cache0 = cache, !.cacheMid = cache,
                 !.requests0 = requests, !.last_cleanup0 = last_cleanup,
                 !.recorded0 = Len(recorded),
                 !.started_at = now, !.after_rem = (remFetch # NoneV)]

CacheQueries == {<<"a">>, <<"A">>, <<"b">>, <<"c">>}
CacheResults == {[data |-> 1], [data |-> 2]}

-----------------------------------------------------------------------------
(* Chats, session ids and dicts *)

\* Python's None where the other values are strings: no sequence of
\* one-character strings is equal to it
PyNone == <<"None">>

\* a dict is a function from its keys; {} is the function with no key
EmptyDict == [k \in {} |-> PyNone]

\* d.get(k, default)
DictGet(d, k, default) == IF k \in DOMAIN d THEN d[k] ELSE default

\* d.copy() followed by .update(u)
DictUpdate(d, u) ==
    [k \in DOMAIN d \cup DOMAIN u |-> IF k \in DOMAIN u THEN u[k] ELSE d[k]]

\* the chats that are open at the same time
Chats == {1, 2}

\* the conversation id the provider assigns to the conversation of a chat
ConversationId(ch) == IF ch = 1 THEN "conv_1" ELSE "conv_2"

DefaultSession == "default_session"

\* the session ids under which rows and memories can be stored
SessionKeys == {DefaultSession} \cup {ConversationId(ch) : ch \in Chats}

\* a chat that has not started
ChatNew ==
    [pc |-> "new", sent |-> 0, function_output |-> NoneV, result |-> NoneV,
     session_id |-> "", goals0 |-> {},
     auto_name |-> PyNone, auto_key |-> "", touched |-> {},
     greeted |-> PyNone]

\* data_manager has just created its tables, no chat has started
InitAssistant ==
    /\ user_profiles = [k \in SessionKeys |-> NoneV]
    /\ goals = <<>>
    /\ user_session = [ch \in Chats |-> EmptyDict]
    /\ chat = [ch \in Chats |-> ChatNew]

-----------------------------------------------------------------------------
(* Initial states *)

\* the module has just been imported: both singletons are empty
InitSingletons ==
    /\ cache = <<>>
    /\ last_cleanup = 0
    /\ requests = <<>>
    /\ now = 0
    /\ recorded = <<>>
    /\ remFetch = NoneV
    /\ remEvicted = FALSE
    /\ last_set = NoneV

\* the same, in a process whose chats have not started and whose memory
\* service is not configured
InitShared ==
    /\ InitSingletons
    /\ InitAssistant
    /\ memories = NoneV

InitCommon ==
    /\ InitShared
    /\ call = [c \in Callers |-> Idle]

InitCache ==
    /\ InitCommon
    /\ max_size \in 1..MaxSize
    /\ ttl_hours \in CacheTtlChoices
    /\ max_requests = DefaultMaxRequests
    /\ window_minutes = DefaultWindowMinutes
    /\ api_key = TRUE

-----------------------------------------------------------------------------
(* The clock *)

\* an hour passes, at any point of any call
Tick ==
    /\ now < MaxTime
    /\ now' = now + 1
    /\ UNCHANGED <<cache, last_cleanup, max_size, ttl_hours, requests,
                   max_requests, window_minutes, api_key, call, recorded,
                   remFetch, remEvicted, last_set, Assistant>>

\* an hour passes between two calls of exa_web_search, or while a call is
\* in its retry loop, about to call the provider (time that passes in
\* time.sleep is time that has passed when the next attempt starts)
TickBlocked ==
    /\ \A c \in DOMAIN call : call[c].pc \in {"idle", "attempt"}
    /\ Tick

-----------------------------------------------------------------------------
(* Steps of SearchCache *)

Config == <<max_size, ttl_hours, max_requests, window_minutes, api_key>>

\* SearchCache._cleanup_expired, called first by get and by set
CleanupExpired(c) ==
    /\ call[c].pc \in {"get_cleanup", "set_cleanup"}
    /\ IF CleanupDue(now, last_cleanup)
       THEN /\ cache' = KeepLive(cache, now, ttl_hours)
            /\ last_cleanup' = now
       ELSE UNCHANGED <<cache, last_cleanup>>
    /\ call' = [call EXCEPT
                  ![c].pc = IF call[c].pc = "get_cleanup"
                            THEN "get_lookup" ELSE "set_check",
                  ![c].cacheMid = cache',
                  ![c].swept = @ \/ CleanupDue(now, last_cleanup)]
    /\ UNCHANGED <<Config, Assistant,
                   requests, now, recorded, remFetch, remEvicted,
                   last_set>>

\* what get finds under key k at time t: the entry's result while it is
\* fresh, None otherwise
Lookup(c, k, t, ttl) ==
    IF k \in CacheKeys(c) /\ Fresh(t, c[IndexOf(c, k)].timestamp, ttl)
    THEN c[IndexOf(c, k)].result
    ELSE NoneV

\* variant: an entry that is read gets the time of the read
AfterLookupRefresh(c, k, t, ttl) ==
    IF k \in CacheKeys(c)
    THEN IF Fresh(t, c[IndexOf(c, k)].timestamp, ttl)
         THEN [c EXCEPT ![IndexOf(c, k)].timestamp = t]
         ELSE RemoveAt(c, IndexOf(c, k))
    ELSE c

\* the dict after get looked up key k at time t: an entry found expired is
\* deleted
AfterLookup(c, k, t, ttl) ==
    IF k \in CacheKeys(c) /\ ~Fresh(t, c[IndexOf(c, k)].timestamp, ttl)
    THEN RemoveAt(c, IndexOf(c, k))
    ELSE c

\* variant: a search asks the limiter before it returns a cached result
GetLookupAfterLimiter(c) ==
    /\ call[c].pc = "get_lookup"
    /\ LET k == query_hash(call[c].cache_key)
           r == Lookup(cache, k, now, ttl_hours)
           pruned == SelectSeq(requests,
                         LAMBDA t : (now - t) * MinutesPerHour
                                      < window_minutes)
           hit == call[c].op = "search" /\ r # NoneV
           refused == hit /\ ~(Len(pruned) < max_requests)
       IN /\ cache' = AfterLookup(cache, k, now, ttl_hours)
          /\ requests' = IF hit THEN pruned ELSE requests
          /\ call' = [call EXCEPT
                        ![c].cached_result = r,
                        ![c].ret = IF refused
                                   THEN [error |-> "Rate limit exceeded.",
                                         query |-> call[c].query,
                                         cached |-> FALSE]
                                   ELSE IF call[c].op = "get" \/ r # NoneV
                                   THEN r ELSE NoneV,
                        ![c].pc = IF call[c].op = "get" \/ r # NoneV
                                  THEN "done" ELSE "can_read"]
    /\ UNCHANGED <<Config, Assistant, last_cleanup, now, recorded, remFetch,
                   remEvicted, last_set>>

\* SearchCache.get after the sweep; for exa_web_search also the test of
\* cached_result that follows the call
GetLookup(c) ==
    /\ call[c].pc = "get_lookup"
    /\ LET k == query_hash(call[c].cache_key)
           r == Lookup(cache, k, now, ttl_hours)
       IN /\ cache' = AfterLookup(cache, k, now, ttl_hours)
          /\ call' = [call EXCEPT
                        ![c].cached_result = r,
                        ![c].ret = IF call[c].op = "get" \/ Truthy(r)
                                   THEN r ELSE NoneV,
                        ![c].pc = IF call[c].op = "get" \/ Truthy(r)
                                  THEN "done" ELSE "can_read"]
    /\ UNCHANGED <<Config, Assistant,
                   last_cleanup, requests, now, recorded, remFetch,
                   remEvicted, last_set>>

\* SearchCache.set: if len(self.cache) >= self.max_size
SetCheck(c) ==
    /\ call[c].pc = "set_check"
    /\ call' = [call EXCEPT
                  ![c].pc = IF CacheFull(cache, max_size)
                            THEN "set_evict" ELSE "set_insert"]
    /\ UNCHANGED <<Config, Assistant,
                   cache, last_cleanup, requests, now, recorded,
                   remFetch, remEvicted, last_set>>

\* SearchCache.set: oldest_key = min(...); del self.cache[oldest_key].
\* min() of an empty dict raises ValueError.
SetEvict(c) ==
    /\ call[c].pc = "set_evict"
    /\ IF cache = <<>>
       THEN /\ call' = [call EXCEPT
                          ![c].e = "ValueError",
                          ![c].pc = IF call[c].op = "search"
                                    THEN "except" ELSE "done",
                          ![c].ret = IF call[c].op = "search"
                                     THEN NoneV
                                     ELSE [raised |-> "ValueError"]]
            /\ UNCHANGED <<cache, remEvicted>>
       ELSE /\ cache' = RemoveAt(cache, OldestIndex(cache))
            /\ remEvicted' =
                 (remEvicted \/
                    (remFetch # NoneV /\
                       cache[OldestIndex(cache)].key = remFetch.key))
            /\ call' = [call EXCEPT ![c].pc = "set_insert"]
    /\ UNCHANGED <<Config, Assistant,
                   last_cleanup, requests, now, recorded, remFetch,
                   last_set>>

\* SearchCache.set: self.cache[query_hash] = (result, datetime.now()); for
\* exa_web_search also the return of result_json that follows the call
SetInsert(c) ==
    /\ call[c].pc = "set_insert"
    /\ cache' = Store(cache, query_hash(call[c].cache_key),
                      call[c].result_json, now)
    /\ call' = [call EXCEPT
                  ![c].pc = "done",
                  ![c].ret = IF call[c].op = "search"
                             THEN call[c].result_json ELSE NoneV,
                  ![c].wrote = 1 + Cardinality({d \in DOMAIN call :
                                                  call[d].wrote > 0}),
                  ![c].wrote_at = now]
    /\ remFetch' \in
         IF call[c].op = "search" /\ remFetch = NoneV
         THEN {NoneV, [key |-> query_hash(call[c].cache_key),
                       raw_query |-> call[c].raw_query,
                       raw_num |-> call[c].raw_num,
                       include_content |-> call[c].include_content,
                       payload |-> call[c].result_json,
                       at |-> now]}
         ELSE {remFetch}
    /\ last_set' =
         IF call[c].op = "set"
         THEN [query |-> call[c].cache_key, result |-> call[c].result_json,
               at |-> now]
         ELSE last_set
    /\ UNCHANGED <<Config, Assistant,
                   last_cleanup, requests, now, recorded, remEvicted>>

\* the operation returns to its caller
Return(c) ==
    /\ call[c].pc = "done"
    /\ call' = [call EXCEPT ![c] = Idle]
    /\ UNCHANGED <<Config, Assistant,
                   cache, last_cleanup, requests, now, recorded,
                   remFetch, remEvicted, last_set>>

-----------------------------------------------------------------------------
(* Direct calls of the SearchCache *)

\* search_cache.get(query)
StartGet(c) ==
    /\ AllIdle
    /\ \E q \in CacheQueries :
         call' = [call EXCEPT ![c] =
                    [Enter("get") EXCEPT !.cache_key = q,
                                         !.pc = "get_cleanup"]]
    /\ UNCHANGED <<Config, Assistant,
                   cache, last_cleanup, requests, now, recorded,
                   remFetch, remEvicted, last_set>>

\* search_cache.set(query, result) is called by c
BeginSet(c, queries, results) ==
    /\ call[c].pc = "idle"
    /\ \E q \in queries, v \in results :
         call' = [call EXCEPT ![c] =
                    [Enter("set") EXCEPT !.cache_key = q,
                                         !.result_json = v,
                                         !.pc = "set_cleanup"]]
    /\ UNCHANGED <<Config, Assistant,
                   cache, last_cleanup, requests, now, recorded,
                   remFetch, remEvicted, last_set>>

\* search_cache.set(query, result), while no other call is running
StartSet(c) == AllIdle /\ BeginSet(c, CacheQueries, CacheResults)

NextCache ==
    \/ Tick
    \/ \E c \in Callers : StartGet(c)
    \/ \E c \in Callers : StartSet(c)
    \/ \E c \in Callers : CleanupExpired(c)
    \/ \E c \in Callers : GetLookup(c)
    \/ \E c \in Callers : SetCheck(c)
    \/ \E c \in Callers : SetEvict(c)
    \/ \E c \in Callers : SetInsert(c)
    \/ \E c \in Callers : Return(c)

SpecCache == InitCache /\ [][NextCache]_vars

-----------------------------------------------------------------------------
(* Concurrent calls of SearchCache.set: the sessions share search_cache and *)
(* nothing orders their steps; the code takes no lock                       *)

Sessions == {1, 2}

\* what the sessions store
ConcQueries == {<<"a">>, <<"b">>, <<"c">>}
ConcResults == {[data |-> 1]}

InitCacheConc ==
    /\ InitShared
    /\ call = [c \in Sessions |-> Idle]
    /\ max_size \in 1..MaxSize
    /\ ttl_hours = DefaultTtlHours
    /\ max_requests = DefaultMaxRequests
    /\ window_minutes = DefaultWindowMinutes
    /\ api_key = TRUE

\* the sets are made within one hour of the start: nothing expires
NextCacheConc ==
    \/ \E c \in Sessions : BeginSet(c, ConcQueries, ConcResults)
    \/ \E c \in Sessions : CleanupExpired(c)
    \/ \E c \in Sessions : SetCheck(c)
    \/ \E c \in Sessions : SetEvict(c)
    \/ \E c \in Sessions : SetInsert(c)
    \/ \E c \in Sessions : Return(c)

SpecCacheConc == InitCacheConc /\ [][NextCacheConc]_vars

-----------------------------------------------------------------------------
(* exa_web_search: payloads *)

EmptyQueryError == [error |-> "Search query cannot be empty"]

RateLimitError(query) ==
    [error |-> "Rate limit exceeded. Please try again later.",
     query |-> query, cached |-> FALSE]

NoApiKeyError == [error |-> "Exa API key not configured."]
\* variant: the payload of the other error returns, without query and
\* timestamp
SearchFailedErrorBare(e, query, t) ==
    [status |-> "error", error |-> <<"Web search failed: ", e>>,
     cached |-> FALSE]

SearchFailedError(e, query, t) ==
    [status |-> "error", error |-> <<"Web search failed: ", e>>,
     query |-> query, timestamp |-> t, cached |-> FALSE]

-----------------------------------------------------------------------------
(* Steps of RateLimiter *)

InitLimiter ==
    /\ InitCommon
    /\ max_size = DefaultMaxSize
    /\ ttl_hours = DefaultTtlHours
    /\ max_requests \in MaxRequestsChoices
    /\ window_minutes \in WindowChoices
    /\ api_key = TRUE

\* can_make_request: current_time = datetime.now() and the list
\* comprehension over self.requests
CanRead(c) ==
    /\ call[c].pc = "can_read"
    /\ call' = [call EXCEPT
                  ![c].current_time = now,
                  ![c].pruned = Prune(requests, now, window_minutes),
                  ![c].pc = "can_assign"]
    /\ UNCHANGED <<Config, Assistant,
                   cache, last_cleanup, requests, now, recorded,
                   remFetch, remEvicted, last_set>>

\* can_make_request: self.requests = [...]
CanAssign(c) ==
    /\ call[c].pc = "can_assign"
    /\ requests' = call[c].pruned
    /\ call' = [call EXCEPT ![c].pc = "can_return"]
    /\ UNCHANGED <<Config, Assistant,
                   cache, last_cleanup, now, recorded, remFetch,
                   remEvicted, last_set>>

\* can_make_request: return len(self.requests) < self.max_requests; for
\* exa_web_search also the test of the answer that follows the call
CanReturn(c) ==
    /\ call[c].pc = "can_return"
    /\ LET ok == Admits(requests, max_requests)
       IN call' = [call EXCEPT
                     ![c].admitted = ok,
                     ![c].ret = IF call[c].op = "can" THEN [value |-> ok]
                                ELSE IF ok THEN NoneV
                                ELSE RateLimitError(call[c].query),
                     ![c].pc = IF call[c].op = "search" /\ ok
                               THEN "get_client" ELSE "done"]
    /\ UNCHANGED <<Config, Assistant,
                   cache, last_cleanup, requests, now, recorded,
                   remFetch, remEvicted, last_set>>

\* record_request: self.requests.append(datetime.now())
RecordRequest(c) ==
    /\ call[c].pc = "record"
    /\ requests' = Append(requests, now)
    /\ recorded' = Append(recorded, now)
    /\ call' = [call EXCEPT
                  ![c].pc = IF call[c].op = "search"
                            THEN "attempt" ELSE "done"]
    /\ UNCHANGED <<Config, Assistant,
                   cache, last_cleanup, now, remFetch, remEvicted,
                   last_set>>

-----------------------------------------------------------------------------
(* Direct calls of the RateLimiter *)

\* rate_limiter.can_make_request()
StartCan(c) ==
    /\ AllIdle
    /\ call' = [call EXCEPT ![c] = [Enter("can") EXCEPT !.pc = "can_read"]]
    /\ UNCHANGED <<Config, Assistant,
                   cache, last_cleanup, requests, now, recorded,
                   remFetch, remEvicted, last_set>>

\* rate_limiter.record_request()
StartRecord(c) ==
    /\ AllIdle
    /\ Len(recorded) < MaxRecords
    /\ call' = [call EXCEPT ![c] = [Enter("record") EXCEPT !.pc = "record"]]
    /\ UNCHANGED <<Config, Assistant,
                   cache, last_cleanup, requests, now, recorded,
                   remFetch, remEvicted, last_set>>

NextLimiter ==
    \/ Tick
    \/ \E c \in Callers : StartCan(c)
    \/ \E c \in Callers : StartRecord(c)
    \/ \E c \in Callers : CanRead(c)
    \/ \E c \in Callers : CanAssign(c)
    \/ \E c \in Callers : CanReturn(c)
    \/ \E c \in Callers : RecordRequest(c)
    \/ \E c \in Callers : Return(c)

SpecLimiter == InitLimiter /\ [][NextLimiter]_vars

-----------------------------------------------------------------------------
(* exa_web_search *)

\* the calls explored: (query, num_results, include_content)
SearchInputs ==
    {<< <<>>, 5, TRUE >>,
     << <<" ">>, 5, TRUE >>,
     << <<"a">>, 5, TRUE >>,
     << <<" ", "A", " ">>, 5, TRUE >>,
     << <<"b">>, 5, TRUE >>}
Errors == {"timeout", "http500"}

\* what the provider answers when it answers: one result, with a title and
\* without text
Responses ==
    {<<[title |-> "t", url |-> "u", text |-> ""]>>}

InitSearch ==
    /\ InitCommon
    /\ max_size \in 1..MaxSize
    /\ ttl_hours \in TtlChoices
    /\ max_requests \in MaxRequestsChoices
    /\ window_minutes = DefaultWindowMinutes
    /\ api_key \in BOOLEAN
\* variant: the query is not stripped before the test
IsBlankNoStrip(query) == query = <<>>

\* not query or not query.strip()
IsBlank(query) == query = <<>> \/ Strip(query) = <<>>

\* variant: only the upper limit is applied
ClampUpperOnly(n) == Min2(n, MaxResults)

\* min(max(num_results, 1), 10)
Clamp(n) == Min2(Max2(n, MinResults), MaxResults)

\* variant: the flag is left out of the key
CacheKeyNoFlag(query, n, inc) == query \o <<"_">> \o StrInt(n)

\* f"{query}_{num_results}_{include_content}"
CacheKey(query, n, inc) ==
    query \o <<"_">> \o StrInt(n) \o <<"_">> \o StrBool(inc)

\* the dict built for one provider result
ProcessResult(r) ==
    [title |-> IF r.title # "" THEN r.title ELSE "No title",
     url |-> r.url,
     content |-> IF r.text # "" THEN r.text ELSE "No content available",
     published_date |-> "Not available"]

\* response_data, serialized
SuccessPayload(query, response, t) ==
    [status |-> "success", query |-> query,
     num_results |-> Len(response),
     results |-> [i \in 1..Len(response) |-> ProcessResult(response[i])],
     timestamp |-> t, cached |-> FALSE]

\* exa_web_search is called: input validation, strip, clamp and the cache
\* key, up to the call of search_cache.get
BeginSearch(c, inputs) ==
    /\ call[c].pc = "idle"
    /\ \E in \in inputs :
         LET q == in[1]
             n == in[2]
             inc == in[3]
         IN call' = [call EXCEPT ![c] =
              IF IsBlank(q)
              THEN [Enter("search") EXCEPT
                      !.raw_query = q, !.raw_num = n, !.query = q,
                      !.num_results = n, !.include_content = inc,
                      !.ret = EmptyQueryError, !.pc = "done"]
              ELSE [Enter("search") EXCEPT
                      !.raw_query = q, !.raw_num = n, !.query = Strip(q),
                      !.num_results = Clamp(n), !.include_content = inc,
                      !.cache_key = CacheKey(Strip(q), Clamp(n), inc),
                      !.pc = "get_cleanup"]]
    /\ UNCHANGED <<Config, Assistant,
                   cache, last_cleanup, requests, now, recorded,
                   remFetch, remEvicted, last_set>>

\* exa_web_search is called while no other call is running
StartSearch(c, inputs) == AllIdle /\ BeginSearch(c, inputs)

\* variant: the request is recorded before the client is looked up
GetClientRecordFirst(c) ==
    /\ call[c].pc = "get_client"
    /\ api_key => Len(recorded) < MaxRecords
    /\ IF api_key
       THEN UNCHANGED <<requests, recorded>>
       ELSE /\ requests' = Append(requests, now)
            /\ recorded' = Append(recorded, now)
    /\ call' = [call EXCEPT
                  ![c].ret = IF api_key THEN NoneV ELSE NoApiKeyError,
                  ![c].pc = IF api_key THEN "record" ELSE "done"]
    /\ UNCHANGED <<Config, Assistant,
                   cache, last_cleanup, now, remFetch, remEvicted,
                   last_set>>

\* exa = get_exa_client(); if not exa: return the configuration error.
\* The model follows at most MaxRecords searches beyond this point.
GetClient(c) ==
    /\ call[c].pc = "get_client"
    /\ api_key => Len(recorded) < MaxRecords
    /\ call' = [call EXCEPT
                  ![c].ret = IF api_key THEN NoneV ELSE NoApiKeyError,
                  ![c].pc = IF api_key THEN "record" ELSE "done"]
    /\ UNCHANGED <<Config, Assistant,
                   cache, last_cleanup, requests, now, recorded,
                   remFetch, remEvicted, last_set>>

\* which step follows a failed attempt: the backoff sleep, or the raise
\* that the outer handler catches
AfterFailure(attempt) ==
    IF attempt < max_retries - 1 THEN "sleep" ELSE "except"

\* one pass of the retry loop: the provider call answers or raises
Attempt(c) ==
    /\ call[c].pc = "attempt"
    /\ \/ \E r \in Responses :
            call' = [call EXCEPT
                       ![c].trace = Append(@, [kind |-> "answer", data |-> r,
                                               num_results |->
                                                   call[c].num_results]),
                       ![c].search_response = r,
                       ![c].pc = "process"]
       \/ \E e \in Errors :
            call' = [call EXCEPT
                       ![c].trace = Append(@, [kind |-> "raise", data |-> e,
                                               num_results |->
                                                   call[c].num_results]),
                       ![c].e = e,
                       ![c].pc = AfterFailure(call[c].attempt)]
    /\ UNCHANGED <<Config, Assistant,
                   cache, last_cleanup, requests, now, recorded,
                   remFetch, remEvicted, last_set>>
\* variant: linear instead of exponential
BackoffLinear(attempt) == BackoffBase * attempt

\* the delay before the next attempt
Backoff(attempt) == Pow(BackoffBase, attempt)

\* variant: admission is recorded again before every retry
SleepRecording(c) ==
    /\ call[c].pc = "sleep"
    /\ requests' = Append(requests, now)
    /\ recorded' = Append(recorded, now)
    /\ call' = [call EXCEPT
                  ![c].trace = Append(@, [kind |-> "sleep",
                                          data |-> Backoff(call[c].attempt)]),
                  ![c].attempt = @ + 1,
                  ![c].pc = "attempt"]
    /\ UNCHANGED <<Config, Assistant,
                   cache, last_cleanup, now, remFetch, remEvicted,
                   last_set>>

\* time.sleep(2 ** attempt), then the next pass of the loop
Sleep(c) ==
    /\ call[c].pc = "sleep"
    /\ call' = [call EXCEPT
                  ![c].trace = Append(@, [kind |-> "sleep",
                                          data |-> Backoff(call[c].attempt)]),
                  ![c].attempt = @ + 1,
                  ![c].pc = "attempt"]
    /\ UNCHANGED <<Config, Assistant,
                   cache, last_cleanup, requests, now, recorded,
                   remFetch, remEvicted, last_set>>

\* the results are processed and serialized, up to the call of
\* search_cache.set
Process(c) ==
    /\ call[c].pc = "process"
    /\ call' = [call EXCEPT
                  ![c].result_json =
                      SuccessPayload(call[c].query,
                                     call[c].search_response, now),
                  ![c].pc = "set_cleanup"]
    /\ UNCHANGED <<Config, Assistant,
                   cache, last_cleanup, requests, now, recorded,
                   remFetch, remEvicted, last_set>>

\* variant: the error payload is stored in the cache before it is returned
ExceptStored(c) ==
    /\ call[c].pc = "except"
    /\ cache' = Store(cache, query_hash(call[c].cache_key),
                      SearchFailedError(call[c].e, call[c].query, now), now)
    /\ call' = [call EXCEPT
                  ![c].ret = SearchFailedError(call[c].e, call[c].query, now),
                  ![c].pc = "done"]
    /\ UNCHANGED <<Config, Assistant, last_cleanup, requests, now, recorded,
                   remFetch, remEvicted, last_set>>

\* except Exception as e: the error payload is returned
Except(c) ==
    /\ call[c].pc = "except"
    /\ call' = [call EXCEPT
                  ![c].ret = SearchFailedError(call[c].e, call[c].query, now),
                  ![c].pc = "done"]
    /\ UNCHANGED <<Config, Assistant,
                   cache, last_cleanup, requests, now, recorded,
                   remFetch, remEvicted, last_set>>

Next ==
    \/ TickBlocked
    \/ \E c \in Callers : StartSearch(c, SearchInputs)
    \/ \E c \in Callers : CleanupExpired(c)
    \/ \E c \in Callers : GetLookup(c)
    \/ \E c \in Callers : CanRead(c)
    \/ \E c \in Callers : CanAssign(c)
    \/ \E c \in Callers : CanReturn(c)
    \/ \E c \in Callers : GetClient(c)
    \/ \E c \in Callers : RecordRequest(c)
    \/ \E c \in Callers : Attempt(c)
    \/ \E c \in Callers : Sleep(c)
    \/ \E c \in Callers : Process(c)
    \/ \E c \in Callers : Except(c)
    \/ \E c \in Callers : SetCheck(c)
    \/ \E c \in Callers : SetEvict(c)
    \/ \E c \in Callers : SetInsert(c)
    \/ \E c \in Callers : Return(c)

Spec == InitSearch /\ [][Next]_vars

\* the same searches against a limiter that admits one request per window
\* and a cache whose entries live one hour
InitBudgetOne ==
    /\ InitCommon
    /\ max_size \in 1..MaxSize
    /\ ttl_hours = 1
    /\ max_requests = 1
    /\ window_minutes = DefaultWindowMinutes
    /\ api_key \in BOOLEAN

SpecBudgetOne == InitBudgetOne /\ [][Next]_vars

-----------------------------------------------------------------------------
(* exa_web_search called with num_results inside and outside [1, 10] *)

\* the calls explored: one query in three spellings and another query,
\* num_results below, at and above the limits, and both values of
\* include_content at the upper limit
ClampInputs ==
    {<< <<"a">>, -3, TRUE >>,
     << <<" ", "a", " ">>, 1, TRUE >>,
     << <<"b">>, 1, TRUE >>,
     << <<"a">>, 0, TRUE >>,
     << <<"a">>, 1, TRUE >>,
     << <<"A">>, 10, TRUE >>,
     << <<"a">>, 11, TRUE >>,
     << <<"a">>, 11, FALSE >>}

InitClamp ==
    /\ InitCommon
    /\ max_size \in 1..MaxSize
    /\ ttl_hours = 1
    /\ max_requests = DefaultMaxRequests
    /\ window_minutes = DefaultWindowMinutes
    /\ api_key = TRUE

\* the calls are made within one hour of the start: no entry expires
NextClamp ==
    \/ \E c \in Callers : StartSearch(c, ClampInputs)
    \/ \E c \in Callers : CleanupExpired(c)
    \/ \E c \in Callers : GetLookup(c)
    \/ \E c \in Callers : CanRead(c)
    \/ \E c \in Callers : CanAssign(c)
    \/ \E c \in Callers : CanReturn(c)
    \/ \E c \in Callers : GetClient(c)
    \/ \E c \in Callers : RecordRequest(c)
    \/ \E c \in Callers : Attempt(c)
    \/ \E c \in Callers : Sleep(c)
    \/ \E c \in Callers : Process(c)
    \/ \E c \in Callers : Except(c)
    \/ \E c \in Callers : SetCheck(c)
    \/ \E c \in Callers : SetEvict(c)
    \/ \E c \in Callers : SetInsert(c)
    \/ \E c \in Callers : Return(c)

SpecClamp == InitClamp /\ [][NextClamp]_vars

-----------------------------------------------------------------------------
(* Concurrent calls of exa_web_search: the sessions share search_cache and *)
(* rate_limiter and nothing orders their steps; the code takes no lock     *)

\* the calls explored: two spellings of one query, and another query
ConcInputs ==
    {<< <<"a">>, 5, TRUE >>,
     << <<"A">>, 5, TRUE >>,
     << <<"b">>, 5, TRUE >>}

ConcMaxRequestsChoices == {1, 3}

\* the entry that a search for b, answered by the provider, has stored
EntryOfEarlierSearch(r) ==
    [key |-> query_hash(CacheKey(<<"b">>, 5, TRUE)),
     result |-> SuccessPayload(<<"b">>, r, 0),
     timestamp |-> 0]

\* The sessions start when the module has just been imported, or when one
\* search, for b, has been made and answered.
InitConc ==
    /\ last_cleanup = 0
    /\ now = 0
    /\ remFetch = NoneV
    /\ remEvicted = FALSE
    /\ last_set = NoneV
    /\ \/ cache = <<>> /\ requests = <<>> /\ recorded = <<>>
       \/ \E r \in Responses :
            /\ cache = <<EntryOfEarlierSearch(r)>>
            /\ requests = <<0>>
            /\ recorded = <<0>>
    /\ InitAssistant
    /\ memories = NoneV
    /\ call = [c \in Sessions |-> Idle]
    /\ max_size \in 1..MaxSize
    /\ ttl_hours = DefaultTtlHours
    /\ max_requests \in ConcMaxRequestsChoices
    /\ window_minutes = DefaultWindowMinutes
    /\ api_key = TRUE

\* each session makes one call, within one hour of the start
NextConc ==
    \/ \E c \in Sessions : BeginSearch(c, ConcInputs)
    \/ \E c \in Sessions : CleanupExpired(c)
    \/ \E c \in Sessions : GetLookup(c)
    \/ \E c \in Sessions : CanRead(c)
    \/ \E c \in Sessions : CanAssign(c)
    \/ \E c \in Sessions : CanReturn(c)
    \/ \E c \in Sessions : GetClient(c)
    \/ \E c \in Sessions : RecordRequest(c)
    \/ \E c \in Sessions : Attempt(c)
    \/ \E c \in Sessions : Sleep(c)
    \/ \E c \in Sessions : Process(c)
    \/ \E c \in Sessions : Except(c)
    \/ \E c \in Sessions : SetCheck(c)
    \/ \E c \in Sessions : SetEvict(c)
    \/ \E c \in Sessions : SetInsert(c)

SpecConc == InitConc /\ [][NextConc]_vars

-----------------------------------------------------------------------------
(* Properties of the SearchCache, checked under SpecCache *)

Entries(c) == {c[i] : i \in 1..Len(c)}

SetDone(c) ==
    call[c].pc = "done" /\ call[c].op = "set" /\ call[c].ret = NoneV

\* from the dict `before`, set(k, ...) removed exactly one entry, one whose
\* timestamp is the smallest (the first such in dict order), kept every
\* other entry as it was and stored k
EvictedOneOldest(before, after, k) ==
    \E i \in 1..Len(before) :
        /\ \A j \in 1..Len(before) :
             before[i].timestamp <= before[j].timestamp
        /\ \A j \in 1..(i - 1) : before[j].timestamp > before[i].timestamp
        /\ CacheKeys(after) = (CacheKeys(before) \ {before[i].key}) \cup {k}
        /\ Len(after) = Len(before)
        /\ \A j \in 1..Len(before) : j # i => before[j] \in Entries(after)

\* C1: with max_size >= 1, after any sequence of get and set calls made one
\* at a time, with time advancing arbitrarily between and inside them, the
\* number of stored entries never exceeds max_size.
C1_SizeBounded == Len(cache) <= max_size

\* a set has just stored a new key in a cache that was full
C1_Witness ==
    \E c \in Callers :
        /\ SetDone(c)
        /\ Len(call[c].cache0) = max_size
        /\ query_hash(call[c].cache_key) \notin CacheKeys(call[c].cache0)
        /\ Len(cache) = max_size

\* C2 as stated: whenever set inserts a new key into a cache that holds
\* max_size entries when set is called, exactly one entry is removed and it
\* is the one with the smallest insertion timestamp.
C2_AsStated ==
    \A c \in Callers :
        (/\ SetDone(c)
         /\ Len(call[c].cache0) = max_size
         /\ query_hash(call[c].cache_key) \notin CacheKeys(call[c].cache0))
        => EvictedOneOldest(call[c].cache0, cache,
                            query_hash(call[c].cache_key))

\* C2 amended: whenever set inserts a new key into a cache that still holds
\* max_size entries after set's own expiry sweep, exactly one entry is
\* removed by capacity eviction, it is an entry with the smallest insertion
\* timestamp (the first in dict order among equals), and every other entry
\* stays as it was; so with max_size = 2, A, B, C inserted in that order
\* with no entry expiring leave exactly {B, C}.
C2_EvictsOldest ==
    \A c \in Callers :
        (/\ SetDone(c)
         /\ Len(call[c].cacheMid) = max_size
         /\ query_hash(call[c].cache_key) \notin CacheKeys(call[c].cacheMid))
        => EvictedOneOldest(call[c].cacheMid, cache,
                            query_hash(call[c].cache_key))

\* a set of a new key found two entries of different ages in a full cache,
\* evicted the older and kept the younger
C2_Witness ==
    \E c \in Callers :
        /\ SetDone(c)
        /\ Len(call[c].cacheMid) = max_size
        /\ max_size = 2
        /\ query_hash(call[c].cache_key) \notin CacheKeys(call[c].cacheMid)
        /\ call[c].cacheMid[1].timestamp < call[c].cacheMid[2].timestamp
        /\ call[c].cacheMid[1].key \notin CacheKeys(cache)
        /\ call[c].cacheMid[2] \in Entries(cache)

\* C3: get never returns the value of an entry whose age now - inserted_at
\* is >= ttl, whether or not the sweep ran: it returns None and deletes the
\* entry; what it does return is the stored value of a fresh entry.  With
\* ttl = 0 every get returns None.
C3_NoExpiredRead ==
    [][\A c \in Callers :
         (call[c].pc = "get_lookup" /\ call[c].op = "get"
            /\ call'[c].pc = "done")
         => LET k == query_hash(call[c].cache_key)
                present == k \in CacheKeys(cache)
                age == now - cache[IndexOf(cache, k)].timestamp
            IN /\ (present /\ age >= ttl_hours)
                    => (call'[c].ret = NoneV /\ k \notin CacheKeys(cache'))
               /\ call'[c].ret # NoneV
                    => (present /\ age < ttl_hours
                        /\ call'[c].ret = cache[IndexOf(cache, k)].result)
               /\ ttl_hours = 0 => call'[c].ret = NoneV]_vars

\* a get found its entry expired although the sweep had left it in place,
\* returned None and deleted it
C3_Witness ==
    \E c \in Callers :
        /\ call[c].pc = "done" /\ call[c].op = "get"
        /\ call[c].ret = NoneV
        /\ query_hash(call[c].cache_key) \in CacheKeys(call[c].cacheMid)
        /\ query_hash(call[c].cache_key) \notin CacheKeys(cache)

-----------------------------------------------------------------------------
(* Properties of the RateLimiter, checked under SpecLimiter *)

\* how many of the first n requests ever recorded are less than the window
\* old at time t
RecordedInWindowAmong(n, t) ==
    Cardinality({i \in 1..n :
                   (t - recorded[i]) * MinutesPerHour < window_minutes})

RecordedInWindow(t) == RecordedInWindowAmong(Len(recorded), t)

CanDone(c) == call[c].pc = "done" /\ call[c].op = "can"

\* C5: for every sequence of record_request and can_make_request calls with
\* time advancing, can_make_request answers false whenever the number of
\* requests recorded inside the trailing window (less than the window
\* before the time the call read) has reached max_requests, and answers
\* true only when fewer than max_requests of them remain inside it; pruning
\* never changes the answer.
C5_WindowBudget ==
    \A c \in Callers :
        CanDone(c) =>
            (call[c].ret.value <=>
               RecordedInWindow(call[c].current_time) < max_requests)

\* can_make_request answers true again although max_requests requests were
\* recorded earlier: all of them have left the window and were pruned
C5_Witness ==
    \E c \in Callers :
        /\ CanDone(c)
        /\ call[c].ret.value
        /\ Len(recorded) >= max_requests
        /\ Len(call[c].requests0) >= max_requests
        /\ requests = <<>>

-----------------------------------------------------------------------------
(* Properties of exa_web_search, checked under Spec *)

SearchDone(c) == call[c].pc = "done" /\ call[c].op = "search"

\* the provider attempts of a call, in order, and its backoff delays
Attempts(tr) == SelectSeq(tr, LAMBDA ev : ev.kind \in {"answer", "raise"})
ProviderCalls(c) == Len(Attempts(call[c].trace))

\* the call waited for nothing and reached neither the provider nor the
\* limiter's list
NoProviderNoRecord(c) ==
    /\ call[c].trace = <<>>
    /\ Len(recorded) = call[c].recorded0
    /\ Len(requests) <= Len(call[c].requests0)
    /\ \A i \in 1..Len(requests) :
         \E j \in 1..Len(call[c].requests0) :
             requests[i] = call[c].requests0[j]

\* every entry of the cache was there, as it is, when the call started
NothingInserted(c) == Entries(cache) \subseteq Entries(call[c].cache0)

\* the call's query differs from the remembered fetch's at most in letter
\* case and outer whitespace, and the other two arguments are the same
SameRequestAsRemembered(c) ==
    /\ Lower(Strip(call[c].raw_query)) = Lower(Strip(remFetch.raw_query))
    /\ call[c].raw_num = remFetch.raw_num
    /\ call[c].include_content = remFetch.include_content

\* a search is over that started after the remembered fetch, within its TTL
\* window, for the same request
RepeatsRemembered(c) ==
    /\ SearchDone(c)
    /\ call[c].after_rem
    /\ SameRequestAsRemembered(c)
    /\ call[c].started_at - remFetch.at < ttl_hours

\* C4 as stated: any search that repeats an earlier successful one within
\* the TTL window (same query up to case and outer whitespace, same
\* num_results and include_content) returns exactly the payload the first
\* one stored and calls the provider zero times.
C4_AsStated ==
    \A c \in Callers :
        RepeatsRemembered(c)
        => (call[c].ret = remFetch.payload /\ ProviderCalls(c) = 0)

\* C4 amended: the same, provided the entry the first search stored has not
\* been evicted for capacity by a search in between.
C4_CachedVariant ==
    \A c \in Callers :
        (RepeatsRemembered(c) /\ ~remEvicted)
        => (call[c].ret = remFetch.payload /\ ProviderCalls(c) = 0)

\* a search whose query is written differently from the remembered one is
\* answered with the remembered payload
C4_Witness ==
    \E c \in Callers :
        /\ RepeatsRemembered(c)
        /\ ~remEvicted
        /\ call[c].raw_query # remFetch.raw_query
        /\ call[c].ret = remFetch.payload

\* the search missed the cache while the requests recorded before it,
\* inside the window, had used up the budget
MissedAndOverBudget(c) ==
    /\ SearchDone(c)
    /\ Strip(call[c].raw_query) # <<>>
    /\ call[c].cached_result = NoneV
    /\ RecordedInWindowAmong(call[c].recorded0, call[c].started_at)
         >= max_requests

\* C6: a search that misses the cache while the limiter does not admit
\* returns the rate-limit error at once: no provider call, no backoff wait,
\* no request recorded, nothing inserted into the cache.
C6_RateLimited ==
    \A c \in Callers :
        MissedAndOverBudget(c)
        => /\ call[c].ret = RateLimitError(call[c].query)
           /\ NoProviderNoRecord(c)
           /\ NothingInserted(c)

\* with max_requests = 1, a search for a query that is not cached is
\* refused while the one admitted request is inside the window
C6_Witness ==
    \E c \in Callers :
        /\ MissedAndOverBudget(c)
        /\ max_requests = 1
        /\ call[c].cache0 # <<>>
        /\ call[c].ret = RateLimitError(call[c].query)

\* C7: a search with an empty or whitespace-only query returns the
\* invalid-input error and leaves the cache, its last_cleanup and the
\* limiter as they were: no provider call, no admission recorded, no lookup,
\* sweep or insertion.
C7_BlankQuery ==
    \A c \in Callers :
        (SearchDone(c) /\ Strip(call[c].raw_query) = <<>>)
        => /\ call[c].ret = EmptyQueryError
           /\ call[c].trace = <<>>
           /\ cache = call[c].cache0
           /\ last_cleanup = call[c].last_cleanup0
           /\ requests = call[c].requests0
           /\ Len(recorded) = call[c].recorded0

\* a whitespace-only query was refused at a time when the sweep was due and
\* the cache and the limiter were not empty
C7_Witness ==
    \E c \in Callers :
        /\ SearchDone(c)
        /\ call[c].raw_query = <<" ">>
        /\ call[c].ret = EmptyQueryError
        /\ cache # <<>>
        /\ requests # <<>>
        /\ CleanupDue(now, last_cleanup)

Kinds(tr) == [i \in 1..Len(tr) |-> tr[i].kind]
\* payload is the success payload of the provider answer `response` to
\* `query`: one result per provider result, with its url and its title
BuiltFrom(payload, response, query) ==
    /\ DOMAIN payload = {"status", "query", "num_results", "results",
                         "timestamp", "cached"}
    /\ payload.status = "success"
    /\ payload.query = query
    /\ payload.num_results = Len(response)
    /\ Len(payload.results) = Len(response)
    /\ \A i \in 1..Len(response) :
         /\ payload.results[i].url = response[i].url
         /\ response[i].title # "" =>
              payload.results[i].title = response[i].title
    /\ ~payload.cached

\* the provider failed on attempts 1 and 2 and answered on attempt 3
FailedTwiceThenAnswered(c) ==
    /\ SearchDone(c)
    /\ Kinds(Attempts(call[c].trace)) = <<"raise", "raise", "answer">>

\* C8: if the provider fails on attempts 1 and 2 and answers on attempt 3,
\* the search returns the success payload built from that answer, exactly
\* two backoff delays occur, one after each failed attempt and before the
\* next attempt, and the payload is stored in the cache under the call's
\* key.
C8_ThirdAttempt ==
    \A c \in Callers :
        FailedTwiceThenAnswered(c)
        => /\ Kinds(call[c].trace) =
                <<"raise", "sleep", "raise", "sleep", "answer">>
           /\ BuiltFrom(call[c].ret, call[c].trace[5].data,
                        Strip(call[c].raw_query))
           /\ \E i \in 1..Len(cache) :
                /\ cache[i].key = Lower(call[c].cache_key)
                /\ cache[i].result = call[c].ret

\* a search succeeded on its third attempt
C8_Witness ==
    \E c \in Callers :
        /\ FailedTwiceThenAnswered(c)
        /\ call[c].ret.status = "success"

\* the events of a call are those of a retry loop of three attempts: an
\* answer ends it, a failure is followed by a sleep of 2^k after attempt k
\* (k = 0, 1) and by nothing after the third
RetryDiscipline(tr) ==
    /\ Len(Attempts(tr)) <= max_retries
    /\ \A i \in 1..Len(tr) :
         LET k == Len(Attempts(SubSeq(tr, 1, i))) - 1
         IN /\ tr[i].kind = "answer" => i = Len(tr)
            /\ tr[i].kind = "sleep"
                 => /\ i > 1 /\ tr[i - 1].kind = "raise"
                    /\ k \in {0, 1}
                    /\ tr[i].data = 2 ^ k
            /\ (tr[i].kind = "raise" /\ i < Len(tr))
                 => (k < 2 /\ tr[i + 1].kind = "sleep")
            /\ (tr[i].kind = "raise" /\ k = 2) => i = Len(tr)
            /\ (tr[i].kind = "sleep" /\ i < Len(tr))
                 => tr[i + 1].kind \in {"answer", "raise"}

\* C9: every search ends after at most 3 provider attempts: it stops at the
\* first answer, waits 2^k only after failed attempt k (k = 0, 1) and before
\* the next attempt, waits for nothing after the third failure, and while
\* it is in the retry loop it always has a next step.
C9_RetryLoop ==
    \A c \in Callers :
        /\ RetryDiscipline(call[c].trace)
        /\ call[c].pc \in {"attempt", "sleep"}
             => ENABLED (Attempt(c) \/ Sleep(c))
        /\ (SearchDone(c) /\ call[c].trace # <<>>)
             => call[c].trace[Len(call[c].trace)].kind \in {"answer", "raise"}
        /\ (SearchDone(c) /\ call[c].trace # <<>>
              /\ call[c].trace[Len(call[c].trace)].kind = "raise")
             => Len(Attempts(call[c].trace)) = max_retries

\* a search gave up after three failed attempts and two sleeps
C9_Witness ==
    \E c \in Callers :
        /\ SearchDone(c)
        /\ Kinds(call[c].trace) =
             <<"raise", "sleep", "raise", "sleep", "raise">>

\* all three provider attempts of the search failed
FailedThrice(c) ==
    /\ SearchDone(c)
    /\ Kinds(Attempts(call[c].trace)) = <<"raise", "raise", "raise">>

\* the payload of a provider failure: the last error, the query, a timestamp
FailurePayloadOfLastError(c) ==
    /\ DOMAIN call[c].ret =
         {"status", "error", "query", "timestamp", "cached"}
    /\ call[c].ret.status = "error"
    /\ call[c].ret.error =
         <<"Web search failed: ",
           Attempts(call[c].trace)[max_retries].data>>
    /\ call[c].ret.query = Strip(call[c].raw_query)
    /\ call[c].ret.timestamp \in call[c].started_at..now

\* C10 as stated: when all 3 attempts fail, the search returns an error
\* payload with the third attempt's error, the query and a timestamp, and
\* the cache contents are the same as before the call.
C10_AsStated ==
    \A c \in Callers :
        FailedThrice(c)
        => (FailurePayloadOfLastError(c) /\ cache = call[c].cache0)

\* C10 amended: when all 3 attempts fail, the search returns an error
\* payload with the third attempt's error, the query and a timestamp, and
\* the call has added or changed no cache entry (the failure is not
\* cached); entries that had expired may have been removed by the call's
\* lookup.
C10_FailureNotCached ==
    \A c \in Callers :
        FailedThrice(c)
        => /\ FailurePayloadOfLastError(c)
           /\ NothingInserted(c)
           /\ \A i \in 1..Len(cache) : cache[i].result # call[c].ret

\* a search failed three times with different errors while the cache held
\* an entry
C10_Witness ==
    \E c \in Callers :
        /\ FailedThrice(c)
        /\ Attempts(call[c].trace)[1].data # Attempts(call[c].trace)[3].data
        /\ cache # <<>>

\* the call is in the retry loop or past it: about to call the provider, or
\* having called it
ReachedProvider(c) ==
    /\ call[c].op = "search"
    /\ call[c].pc = "attempt" \/ call[c].trace # <<>>

\* C11: every search that reaches the provider has appended exactly one
\* timestamp to the limiter, after can_make_request answered true and
\* before the first provider attempt; retries neither re-check nor
\* re-record, so the call has used exactly one slot whether it needs 1, 2 or
\* 3 attempts and whether it succeeds or fails.
C11_OneSlotPerCall ==
    \A c \in Callers :
        /\ ReachedProvider(c)
             => /\ Len(recorded) = call[c].recorded0 + 1
                /\ requests = Append(call[c].pruned, recorded[Len(recorded)])
                /\ recorded[Len(recorded)] >= call[c].current_time
        /\ (call[c].op = "search" /\ Len(recorded) > call[c].recorded0)
             => (call[c].admitted /\ ReachedProvider(c))

\* a search that needed all three attempts is over, with one request
\* recorded for it next to an older one
C11_Witness ==
    \E c \in Callers :
        /\ SearchDone(c)
        /\ ProviderCalls(c) = max_retries
        /\ call[c].recorded0 = 1
        /\ Len(recorded) = 2
        /\ Len(requests) = 2

\* the payload reports a failure
IsFailure(payload) == payload # NoneV /\ "error" \in DOMAIN payload

\* C12 as stated: every failure outcome of a search (empty query, rate
\* limit exceeded, missing API key, provider failure after retries) is
\* returned as an error payload that carries status = error, the query and
\* a timestamp.
C12_AsStated ==
    \A c \in Callers :
        (SearchDone(c) /\ IsFailure(call[c].ret))
        => /\ {"status", "query", "timestamp"} \subseteq DOMAIN call[c].ret
           /\ call[c].ret.status = "error"
           /\ call[c].ret.query = call[c].query

\* the search returned what search_cache.get found
ServedFromCache(c) == SearchDone(c) /\ call[c].cached_result # NoneV

\* the search returned the payload it built from a provider answer
FreshlyFetched(c) ==
    /\ SearchDone(c)
    /\ call[c].cached_result = NoneV
    /\ call[c].result_json # NoneV
    /\ call[c].ret = call[c].result_json

\* C13 as stated: a result served from the cache has its cached flag true,
\* a result fetched from the provider in that call has it false.
C13_AsStated ==
    \A c \in Callers :
        /\ ServedFromCache(c) => call[c].ret.cached
        /\ FreshlyFetched(c) => ~call[c].ret.cached

\* C14: when the API key is absent, a search with a valid query returns the
\* provider-unavailable error without attempting the provider call: zero
\* provider calls, no retry or backoff wait, no admission recorded and
\* nothing inserted into the cache.
C14_NoApiKey ==
    \A c \in Callers :
        (SearchDone(c) /\ ~api_key /\ Strip(call[c].raw_query) # <<>>)
        => /\ call[c].ret = NoApiKeyError
           /\ NoProviderNoRecord(c)
           /\ NothingInserted(c)
           /\ requests = <<>> /\ cache = <<>>

\* without an API key, a query that needed stripping was looked up in the
\* cache, admitted by the limiter and then refused, an hour or more after
\* the process started
C14_Witness ==
    \E c \in Callers :
        /\ SearchDone(c)
        /\ ~api_key
        /\ call[c].raw_query = <<" ", "A", " ">>
        /\ call[c].admitted
        /\ call[c].ret = NoApiKeyError
        /\ now > 0

-----------------------------------------------------------------------------
(* Properties of the clamp of num_results, checked under SpecClamp *)

\* the number of results a request for n stands for: n brought into 1..10
ResultsWanted(n) == IF n < 1 THEN 1 ELSE IF n > 10 THEN 10 ELSE n

\* the search is over; it started after the remembered fetch, within its
\* TTL window, for the same query (up to case and outer whitespace) and
\* flag and for a number of results that clamps to the same value
RepeatsRememberedClamped(c) ==
    /\ SearchDone(c)
    /\ call[c].after_rem
    /\ Lower(Strip(call[c].raw_query)) = Lower(Strip(remFetch.raw_query))
    /\ call[c].include_content = remFetch.include_content
    /\ ResultsWanted(call[c].raw_num) = ResultsWanted(remFetch.raw_num)
    /\ call[c].started_at - remFetch.at < ttl_hours
    /\ ~remEvicted

\* C15: num_results is clamped into [1, 10] before the cache key and the
\* provider call: every provider attempt asks for min(max(num_results, 1),
\* 10) results, and a search for the same query and flag whose num_results
\* clamps to the value of an earlier, still cached one is answered from
\* that entry.
C15_Clamped ==
    \A c \in Callers :
        /\ \A i \in 1..Len(call[c].trace) :
             call[c].trace[i].kind \in {"answer", "raise"}
             => call[c].trace[i].num_results =
                    ResultsWanted(call[c].raw_num)
        /\ RepeatsRememberedClamped(c)
             => (call[c].ret = remFetch.payload /\ ProviderCalls(c) = 0)

\* a search asking for 11 results is answered from the entry that a search
\* asking for 10 stored, after a search asking for 0 results had been sent
\* to the provider
C15_Witness ==
    \E c \in Callers :
        /\ RepeatsRememberedClamped(c)
        /\ call[c].raw_num = 11
        /\ remFetch.raw_num = 10
        /\ call[c].ret = remFetch.payload
        /\ \E i \in 1..Len(cache) :
             cache[i].key = Lower(CacheKey(<<"a">>, 1, TRUE))

-----------------------------------------------------------------------------
(* Further properties of the SearchCache, checked under SpecCache *)

GetDone(c) == call[c].pc = "done" /\ call[c].op = "get"

\* C16: set(k, v) followed by get(k), with less than ttl elapsed since the
\* insertion and no other set in between, returns v unchanged, for every
\* key and value.
C16_RoundTrip ==
    \A c \in Callers :
        (/\ GetDone(c)
         /\ last_set # NoneV
         /\ call[c].cache_key = last_set.query
         /\ now - last_set.at < ttl_hours)
        => call[c].ret = last_set.result

\* a get returns the value of the latest set for its key an hour after the
\* insertion, from a cache of two entries, the sweep having run in between
C16_Witness ==
    \E c \in Callers :
        /\ GetDone(c)
        /\ last_set # NoneV
        /\ call[c].cache_key = last_set.query
        /\ call[c].ret = last_set.result
        /\ now > last_set.at
        /\ last_cleanup > last_set.at
        /\ Len(cache) = 2

\* the dict `after` is the dict `before` without some of its entries: what
\* is left has its value, its timestamp and its place among the others
Remainder(before, after) ==
    after = SelectSeq(before, LAMBDA e : e \in Entries(after))

\* C17: a get never changes the stored value or the timestamp of any entry
\* and adds none (a read does not refresh an entry's age); it may only
\* remove entries whose age has reached ttl, and a get for a key that is
\* not stored removes nothing except through the sweep, which runs only
\* when the cooldown since the last sweep is over.
C17_GetFrame ==
    \A c \in Callers :
        call[c].op = "get"
        => /\ Remainder(call[c].cache0, cache)
           /\ \A e \in Entries(call[c].cache0) \ Entries(cache) :
                now - e.timestamp >= ttl_hours
           /\ query_hash(call[c].cache_key) \notin CacheKeys(call[c].cache0)
                => cache = call[c].cacheMid
           /\ \/ last_cleanup = call[c].last_cleanup0
                   /\ call[c].cacheMid = call[c].cache0
              \/ last_cleanup - call[c].last_cleanup0 >= 1

\* a get has returned the value of an entry stored an hour or more before,
\* next to another entry, and both entries are as they were
C17_Witness ==
    \E c \in Callers :
        /\ GetDone(c)
        /\ call[c].ret # NoneV
        /\ Len(cache) = 2
        /\ cache = call[c].cache0
        /\ \E i \in 1..Len(cache) :
             /\ cache[i].key = query_hash(call[c].cache_key)
             /\ cache[i].timestamp < call[c].started_at

-----------------------------------------------------------------------------
(* Properties of concurrent sets, checked under SpecCacheConc *)

\* C19 as stated: with several callers running set concurrently on the
\* shared cache, interleaving between the capacity check, the eviction and
\* the insertion, the number of stored entries never exceeds max_size.
C19_AsStated == Cardinality(CacheKeys(cache)) <= max_size

-----------------------------------------------------------------------------
(* Properties of concurrent searches, checked under SpecConc *)

\* C18 as stated: with several searches running concurrently against the
\* shared limiter, interleaving at the granularity of can_make_request and
\* record_request, the number of searches admitted to the provider inside
\* any window never exceeds max_requests.
C18_AsStated ==
    \A t \in 0..now :
        Cardinality({i \in 1..Len(recorded) :
                       /\ recorded[i] <= t
                       /\ (t - recorded[i]) * MinutesPerHour
                            < window_minutes})
          <= max_requests

\* the search missed the cache and its last provider attempt was answered
MissedAndFetched(c) ==
    /\ call[c].pc = "done" /\ call[c].op = "search"
    /\ call[c].cached_result = NoneV
    /\ call[c].trace # <<>>
    /\ call[c].trace[Len(call[c].trace)].kind = "answer"

\* the entries stored under the key of c's search
EntriesFor(c) ==
    {i \in 1..Len(cache) : cache[i].key = query_hash(call[c].cache_key)}

\* C20 as stated: when two concurrent searches for the same normalized
\* query both miss the cache and both fetch successfully, both return
\* success, and afterwards the cache holds exactly one entry for that key,
\* whose value and inserted_at are those of the later of the two writes.
C20_AsStated ==
    \A c, d \in DOMAIN call :
        (/\ c # d
         /\ MissedAndFetched(c) /\ MissedAndFetched(d)
         /\ query_hash(call[c].cache_key) = query_hash(call[d].cache_key)
         /\ call[c].wrote >= call[d].wrote)
        => /\ call[c].ret = call[c].result_json
           /\ call[d].ret = call[d].result_json
           /\ call[c].ret.status = "success"
           /\ call[d].ret.status = "success"
           /\ call[c].wrote > call[d].wrote /\ call[d].wrote > 0
           /\ Cardinality(EntriesFor(c)) = 1
           /\ \A i \in EntriesFor(c) :
                /\ cache[i].result = call[c].result_json
                /\ cache[i].timestamp = call[c].wrote_at

-----------------------------------------------------------------------------
(* Properties of the expiry sweep, checked under SpecCache *)

\* C21: the full expiry sweep runs at most once per cooldown period of one
\* hour: a sweep runs no sooner than one cooldown after the previous sweep
\* or after the construction of the cache, and last_cleanup changes only
\* when a sweep runs.
C21_SweepCooldown ==
    \A c \in Callers :
        call[c].op \in {"get", "set"}
        => /\ call[c].swept
                => /\ last_cleanup - call[c].last_cleanup0 >= 1
                   /\ last_cleanup >= call[c].started_at
           /\ ~call[c].swept => last_cleanup = call[c].last_cleanup0

\* a set has swept the cache, one hour after a get had swept it
C21_Witness ==
    \E c \in Callers :
        /\ SetDone(c)
        /\ call[c].swept
        /\ call[c].last_cleanup0 = 1
        /\ last_cleanup = 2

\* C22 as stated: no entry stays in the store for longer than ttl +
\* cooldown after its insertion.
C22_AsStated ==
    \A i \in 1..Len(cache) :
        now - cache[i].timestamp <= ttl_hours + CleanupCooldownHours

\* the call takes the step that runs _cleanup_expired
SweepStep(c) ==
    /\ call[c].pc \in {"get_cleanup", "set_cleanup"}
    /\ call'[c].pc \in {"get_lookup", "set_check"}

\* C22 amended: no entry that has been stored for ttl + cooldown or longer
\* is left once a get or a set has passed its sweep; between calls nothing
\* purges, and an entry stays for as long as no call is made.
C22_PurgedOnAccess ==
    [][\A c \in Callers :
         SweepStep(c)
         => \A i \in 1..Len(cache') :
              now - cache'[i].timestamp < ttl_hours + CleanupCooldownHours]_vars

\* a get for another key has swept away an entry that had outlived ttl +
\* cooldown
C22_Witness ==
    \E c \in Callers :
        /\ call[c].op = "get" /\ call[c].pc = "get_lookup"
        /\ call[c].swept
        /\ query_hash(call[c].cache_key) \notin CacheKeys(call[c].cache0)
        /\ \E i \in 1..Len(call[c].cache0) :
             /\ call[c].started_at - call[c].cache0[i].timestamp
                  > ttl_hours + CleanupCooldownHours
             /\ call[c].cache0[i].key \notin CacheKeys(cache)

-----------------------------------------------------------------------------
(* The edge of the limiter's window, checked under SpecLimiter *)

\* how many timestamps of the list reqs lie in the window that ends at t,
\* in minutes: from t - window, counted when `closed`, up to t
CountInWindow(reqs, t, closed) ==
    Cardinality({i \in 1..Len(reqs) :
        /\ reqs[i] <= t
        /\ IF closed
           THEN t * MinutesPerHour - window_minutes
                  <= reqs[i] * MinutesPerHour
           ELSE t * MinutesPerHour - window_minutes
                  < reqs[i] * MinutesPerHour})

\* C23 as stated: can_make_request answers true exactly when the number of
\* recorded timestamps t with now - window <= t <= now (closed interval: a
\* request recorded exactly one window ago still counts) is strictly less
\* than max_requests.
C23_AsStated ==
    \A c \in Callers :
        CanDone(c) =>
            (call[c].ret.value <=>
               CountInWindow(call[c].requests0, call[c].current_time, TRUE)
                 < max_requests)

\* C23 amended: can_make_request answers true exactly when the number of
\* recorded timestamps t with now - window < t <= now (half-open interval:
\* a request recorded exactly one window ago no longer counts) is strictly
\* less than max_requests.
C23_HalfOpenWindow ==
    \A c \in Callers :
        CanDone(c) =>
            (call[c].ret.value <=>
               CountInWindow(call[c].requests0, call[c].current_time, FALSE)
                 < max_requests)

\* can_make_request answers true although max_requests requests are in the
\* list, because they were recorded exactly one window before
C23_Witness ==
    \E c \in Callers :
        /\ CanDone(c)
        /\ call[c].ret.value
        /\ Len(call[c].requests0) = max_requests
        /\ \A i \in 1..Len(call[c].requests0) :
             (call[c].current_time - call[c].requests0[i]) * MinutesPerHour
               = window_minutes

-----------------------------------------------------------------------------
(* The order of cache and limiter in exa_web_search, under SpecBudgetOne *)

\* the requests in the list that are inside the window at time t
InWindowCount(reqs, t) ==
    Cardinality({i \in 1..Len(reqs) :
                   (t - reqs[i]) * MinutesPerHour < window_minutes})

\* C24: the cache is consulted before the rate limiter: a search that hits
\* the cache is answered with the cached payload even when the limiter's
\* budget for the window is used up, and a cache hit neither checks,
\* prunes nor records anything in the limiter.
C24_CacheBeforeLimiter ==
    \A c \in Callers :
        ServedFromCache(c)
        => /\ call[c].ret = call[c].cached_result
           /\ \E i \in 1..Len(call[c].cacheMid) :
                /\ call[c].cacheMid[i].key = Lower(call[c].cache_key)
                /\ call[c].cacheMid[i].result = call[c].ret
           /\ requests = call[c].requests0
           /\ Len(recorded) = call[c].recorded0
           /\ call[c].trace = <<>>
           /\ ~call[c].admitted

\* a search is answered from the cache while the limiter, with its budget
\* of one request used up inside the window, would refuse a fetch
C24_Witness ==
    \E c \in Callers :
        /\ ServedFromCache(c)
        /\ max_requests = 1
        /\ InWindowCount(requests, call[c].started_at) >= max_requests
        /\ call[c].ret.status = "success"

-----------------------------------------------------------------------------
(* The cache key of exa_web_search, checked under SpecClamp *)

\* the two requests ask for the same thing: trimmed queries equal ignoring
\* letter case, equal clamped num_results, equal flag
SameRequest(q1, n1, inc1, q2, n2, inc2) ==
    /\ Lower(Strip(q1)) = Lower(Strip(q2))
    /\ ResultsWanted(n1) = ResultsWanted(n2)
    /\ inc1 = inc2

\* C25: two requests have the same cache key exactly when their trimmed
\* queries are equal ignoring letter case and their clamped num_results
\* and include_content are equal; so a search is answered from the entry
\* of an earlier fetch only if it is the same request, and always if it
\* is and the entry is still there.
C25_KeyEquality ==
    \A c \in Callers :
        (call[c].op = "search" /\ remFetch # NoneV
           /\ call[c].cache_key # <<>>)
        => /\ (query_hash(call[c].cache_key) = remFetch.key)
                <=> SameRequest(call[c].raw_query, call[c].raw_num,
                                call[c].include_content,
                                remFetch.raw_query, remFetch.raw_num,
                                remFetch.include_content)
           /\ (ServedFromCache(c) /\ Len(call[c].cache0) = 1
                 /\ call[c].cache0[1].key = remFetch.key)
                => SameRequest(call[c].raw_query, call[c].raw_num,
                               call[c].include_content,
                               remFetch.raw_query, remFetch.raw_num,
                               remFetch.include_content)

\* a search that differs from the remembered fetch only in the flag, and
\* one that differs only in the clamped number, were both fetched and
\* stored next to its entry; the first has just finished
C25_Witness ==
    \E c \in Callers :
        /\ SearchDone(c)
        /\ remFetch # NoneV
        /\ call[c].cached_result = NoneV
        /\ Lower(Strip(call[c].raw_query)) = Lower(Strip(remFetch.raw_query))
        /\ ResultsWanted(call[c].raw_num) = ResultsWanted(remFetch.raw_num)
        /\ call[c].include_content # remFetch.include_content
        /\ call[c].ret = call[c].result_json
        /\ remFetch.key \in CacheKeys(cache)
        /\ Len(cache) = 2

-----------------------------------------------------------------------------
(* Capacity eviction on overwrite, checked under SpecCache *)

\* the keys that were stored after set's sweep and are gone when set returns
RemovedBySet(c) == CacheKeys(call[c].cacheMid) \ CacheKeys(cache)

\* C26 as stated: apart from the expiry sweep, set removes an existing
\* entry only when the insertion would otherwise make the number of
\* entries exceed max_size; a set for a key that is already stored removes
\* no other key, even when the cache is full.
C26_AsStated ==
    \A c \in Callers :
        SetDone(c) =>
            (RemovedBySet(c) # {}
               => /\ query_hash(call[c].cache_key)
                       \notin CacheKeys(call[c].cacheMid)
                  /\ Len(call[c].cacheMid) + 1 > max_size)

-----------------------------------------------------------------------------
(* What exa_web_search stores in the cache, under SpecBudgetOne *)

\* the payload is one that a search builds from a provider answer, for a
\* request whose cache key k begins with the payload's query
BuiltFromAnswer(payload, k) ==
    /\ DOMAIN payload = {"status", "query", "num_results", "results",
                         "timestamp", "cached"}
    /\ payload.status = "success"
    /\ payload.timestamp \in 0..now
    /\ \E r \in Responses :
         payload = SuccessPayload(payload.query, r, payload.timestamp)
    /\ Len(k) > Len(payload.query)
    /\ SubSeq(k, 1, Len(payload.query) + 1)
         = query_hash(payload.query \o <<"_">>)

\* C27: after any sequence of searches every value stored in the cache is
\* a payload with status = success built from a provider answer; no
\* invalid-input, rate-limit, provider-unavailable or provider-failure
\* payload is ever stored.
C27_OnlySuccessCached ==
    \A i \in 1..Len(cache) :
        /\ ~IsFailure(cache[i].result)
        /\ BuiltFromAnswer(cache[i].result, cache[i].key)

\* a search has just failed at the provider after its retries, next to an
\* entry stored by an earlier search, and its payload is not in the cache
C27_Witness ==
    \E c \in Callers :
        /\ SearchDone(c)
        /\ IsFailure(call[c].ret)
        /\ "status" \in DOMAIN call[c].ret
        /\ ProviderCalls(c) = max_retries
        /\ Len(cache) >= 1
        /\ \A i \in 1..Len(cache) : cache[i].result # call[c].ret

-----------------------------------------------------------------------------
(* can_make_request against record_request, checked under SpecConc *)

\* C28 as stated: when can_make_request (read the list, build the pruned
\* list, assign it back) runs concurrently with record_request from
\* another caller, no recorded request that is still inside the window is
\* lost from the limiter's list: the list holds every request ever
\* recorded that has not aged out.
C28_AsStated ==
    Len(Prune(requests, now, window_minutes))
        >= Len(Prune(recorded, now, window_minutes))

-----------------------------------------------------------------------------
(* tools/data_manager.py: the tables user_profiles and goals *)
(*                                                                         *)
(* Of the twelve profile columns and the four goal columns, which the code *)
(* treats alike, two of each are kept; updated_at is kept for the goals,   *)
(* where rows are ordered by it.  A statement that fails returns False or  *)
(* {}; the database is taken to work.                                      *)

\* DataManager.get_user_profile: the row as a dict, {} without a row
get_user_profile(session_id) ==
    IF user_profiles[session_id] = NoneV
    THEN EmptyDict
    ELSE user_profiles[session_id]

\* DataManager.update_user_profile: INSERT OR REPLACE on the UNIQUE
\* user_session leaves one row, made of profile_data.get(column)
update_user_profile(session_id, profile_data) ==
    [user_profiles EXCEPT
       ![session_id] = [user_name |-> DictGet(profile_data, "user_name",
                                              PyNone),
                        gender |-> DictGet(profile_data, "gender", PyNone)]]

\* DataManager.get_goals: the dicts that SELECT ... ORDER BY updated_at
\* DESC LIMIT 1 can return; rows of one session with the same updated_at
\* come in an order SQLite does not promise
get_goals(session_id) ==
    LET mine == {i \in 1..Len(goals) : goals[i].user_session = session_id}
        latest == {i \in mine :
                     \A j \in mine :
                        goals[j].updated_at <= goals[i].updated_at}
    IN IF mine = {}
       THEN {EmptyDict}
       ELSE {[calories |-> goals[i].calories,
              protein |-> goals[i].protein] : i \in latest}

\* DataManager.update_goals: user_session is not UNIQUE in goals, so
\* INSERT OR REPLACE adds a row, made of goals.get(column, "")
update_goals(session_id, g) ==
    Append(goals, [user_session |-> session_id,
                   calories |-> DictGet(g, "calories", <<>>),
                   protein |-> DictGet(g, "protein", <<>>),
                   updated_at |-> now])

-----------------------------------------------------------------------------
(* tools/profile_management_tool.py *)

\* cl.user_session.get("conversation_id", "default_session")
SessionId(ch) == DictGet(user_session[ch], "conversation_id", DefaultSession)

\* bool(v) of a value that is None or a string
Filled(v) == v # PyNone /\ v # <<>>

User == <<"U", "s", "e", "r">>

\* get_user_identity: what it can return.  The profile's name first; else,
\* with the memory service, what it makes of the memories of this user id,
\* which is one of the names told to it or "User"; else "User"
get_user_identity(session_id) ==
    LET user_name == DictGet(get_user_profile(session_id), "user_name",
                             PyNone)
    IN IF Filled(user_name) THEN {user_name}
       ELSE IF memories # NoneV THEN memories[session_id] \cup {User}
       ELSE {User}

\* update_profile: the arguments that are not None
NotNone(updates) ==
    [k \in {x \in DOMAIN updates : updates[x] # PyNone} |-> updates[k]]

\* update_profile: existing_profile.copy(), then .update(updates)
updated_profile(existing_profile, updates) ==
    DictUpdate(existing_profile, NotNone(updates))

\* update_profile under session_id: the row is replaced and, with the
\* memory service, the profile and its name are told to it
update_profile(session_id, updates) ==
    LET updated == updated_profile(get_user_profile(session_id), updates)
        name == DictGet(updated, "user_name", PyNone)
    IN /\ user_profiles' = update_user_profile(session_id, updated)
       /\ memories' = IF memories # NoneV /\ Filled(name)
                      THEN [memories EXCEPT ![session_id] = @ \cup {name}]
                      ELSE memories

\* the least position at which p occurs in s, 0 when it does not
Find(s, p) ==
    LET hits == {i \in 1..(Len(s) - Len(p) + 1) :
                   SubSeq(s, i, i + Len(p) - 1) = p}
    IN IF hits = {} THEN 0 ELSE CHOOSE i \in hits : \A j \in hits : i <= j

\* s.split(p)[1], for an s that contains p
SplitSecond(s, p) ==
    LET rest == SubSeq(s, Find(s, p) + Len(p), Len(s))
    IN IF Find(rest, p) = 0 THEN rest
       ELSE SubSeq(rest, 1, Find(rest, p) - 1)

\* s.split()[0] if s.split() else ""
FirstWord(s) ==
    LET t == LStrip(s)
        ws == {i \in 1..Len(t) : t[i] \in Whitespace}
    IN IF ws = {} THEN t
       ELSE SubSeq(t, 1, (CHOOSE i \in ws : \A j \in ws : i <= j) - 1)

Punctuation == {".", ",", "!", "?"}

RECURSIVE LStripChars(_, _)
LStripChars(s, chars) ==
    IF s # <<>> /\ Head(s) \in chars THEN LStripChars(Tail(s), chars) ELSE s

RECURSIVE RStripChars(_, _)
RStripChars(s, chars) ==
    IF s # <<>> /\ s[Len(s)] \in chars
    THEN RStripChars(SubSeq(s, 1, Len(s) - 1), chars)
    ELSE s

UpperChar(ch) ==
    CASE ch = "a" -> "A"
      [] ch = "b" -> "B"
      [] ch = "x" -> "X"
      [] OTHER -> ch

\* str.capitalize
Capitalize(s) ==
    IF s = <<>> THEN s ELSE <<UpperChar(Head(s))>> \o Lower(Tail(s))

\* the patterns of a self-introduction, in the order they are tried
patterns ==
    << <<"i", " ", "a", "m", " ">>,
       <<"m", "y", " ", "n", "a", "m", "e", " ", "i", "s", " ">>,
       <<"i", "'", "m", " ">>,
       <<"i", "m", " ">>,
       <<"c", "a", "l", "l", " ", "m", "e", " ">>,
       <<"t", "h", "i", "s", " ", "i", "s", " ">> >>

\* the name that follows the pattern in the message
NameAfter(message_lower, pattern) ==
    Capitalize(
        RStripChars(
            LStripChars(FirstWord(Strip(SplitSecond(message_lower,
                                                    pattern))),
                        Punctuation),
            Punctuation))

\* auto_store_user_name: the name it stores, None when it stores none: the
\* name after the first pattern that occurs and is followed by one of more
\* than one character
RECURSIVE NameFrom(_, _)
NameFrom(message_lower, i) ==
    IF i > Len(patterns) THEN PyNone
    ELSE IF /\ Find(message_lower, patterns[i]) # 0
            /\ Len(NameAfter(message_lower, patterns[i])) > 1
         THEN NameAfter(message_lower, patterns[i])
         ELSE NameFrom(message_lower, i + 1)

DetectedName(user_message) == NameFrom(Strip(Lower(user_message)), 1)

-----------------------------------------------------------------------------
(* agent.py: the chat handlers *)

\* the messages a user sends
Messages ==
    {<<"h", "i">>,
     <<"I", " ", "a", "m", " ", "B", "o">>,
     <<"i", "m", " ", "x">>}

\* the function calls the agents answer a message with: the profile tool
\* with each action, and the goal tool
ToolCalls ==
    {[name |-> "profile_management", action |-> "view",
      updates |-> EmptyDict],
     [name |-> "profile_management", action |-> "update",
      updates |-> [user_name |-> PyNone, gender |-> <<"f">>]],
     [name |-> "profile_management", action |-> "delete",
      updates |-> EmptyDict],
     [name |-> "goal_setting", action |-> "", updates |-> EmptyDict]}

\* what the model parses out of a goal-setting request
ParsedGoals ==
    {[calories |-> <<"2", "0">>, protein |-> <<>>],
     [calories |-> <<" ">>, protein |-> <<"9">>]}

\* everything of the web search tool but its configuration and the clock
WebSearch ==
    <<cache, last_cleanup, requests, call, recorded, remFetch, remEvicted,
      last_set>>

\* on_chat_start: the greeting uses the identity stored under the chat's
\* session id
OnChatStart(ch) ==
    /\ chat[ch].pc = "new"
    /\ \E user_name \in get_user_identity(SessionId(ch)) :
         chat' = [chat EXCEPT ![ch].pc = "idle", ![ch].greeted = user_name]
    /\ UNCHANGED <<Config, WebSearch, now, user_profiles, goals, memories,
                   user_session>>

\* on_message up to the first event of the stream: the name is detected
\* and stored under the session id the chat has when the message arrives,
\* then the conversation is started or continued and its id is kept; the
\* stream ends with the function call fo, or with none
OnMessage(ch, content, fo) ==
    /\ chat[ch].pc = "idle"
    /\ chat[ch].sent < MaxMessages
    /\ LET session_id == SessionId(ch)
           name == DetectedName(content)
       IN /\ IF name # PyNone
             THEN update_profile(session_id,
                                 [user_name |-> name, gender |-> PyNone])
             ELSE UNCHANGED <<user_profiles, memories>>
          /\ user_session' =
                 [user_session EXCEPT
                    ![ch] = DictUpdate(@, [conversation_id |->
                                               ConversationId(ch)])]
          /\ chat' = [chat EXCEPT
                        ![ch].pc = IF fo = NoneV THEN "idle" ELSE "tool",
                        ![ch].sent = @ + 1,
                        ![ch].function_output = fo,
                        ![ch].result = NoneV,
                        ![ch].session_id = "",
                        ![ch].goals0 = {},
                        ![ch].auto_name = name,
                        ![ch].auto_key = session_id,
                        ![ch].touched =
                            {o \in Chats \ {ch} :
                               /\ chat[o].pc # "new"
                               /\ user_profiles'[SessionId(o)]
                                    # user_profiles[SessionId(o)]}]
    /\ UNCHANGED <<Config, WebSearch, now, goals>>

\* the function call that handle_tool_execution is about to execute
Pending(ch, name, action) ==
    /\ chat[ch].pc = "tool"
    /\ chat[ch].function_output.name = name
    /\ chat[ch].function_output.action = action

\* the frame after the function returned result under session_id
Executed(ch, session_id, result) ==
    [chat EXCEPT ![ch].pc = "idle",
                 ![ch].result = result,
                 ![ch].session_id = session_id,
                 ![ch].goals0 = get_goals(session_id),
                 ![ch].auto_name = PyNone]

\* handle_tool_execution, profile_management with action view
ProfileView(ch) ==
    /\ Pending(ch, "profile_management", "view")
    /\ chat' = Executed(ch, SessionId(ch),
                        [status |-> "success",
                         profile |-> get_user_profile(SessionId(ch))])
    /\ UNCHANGED <<Config, WebSearch, now, user_profiles, goals, memories,
                   user_session>>

\* handle_tool_execution, profile_management with action update
ProfileUpdate(ch) ==
    /\ Pending(ch, "profile_management", "update")
    /\ update_profile(SessionId(ch), chat[ch].function_output.updates)
    /\ chat' = Executed(ch, SessionId(ch),
                        [status |-> "success",
                         profile |->
                             updated_profile(
                                 get_user_profile(SessionId(ch)),
                                 chat[ch].function_output.updates)])
    /\ UNCHANGED <<Config, WebSearch, now, goals, user_session>>

\* handle_tool_execution, profile_management with action delete:
\* delete_profile calls update_goals with a dict that has no goal in it
ProfileDelete(ch) ==
    /\ Pending(ch, "profile_management", "delete")
    /\ Len(goals) < MaxRows
    /\ goals' = update_goals(SessionId(ch), [updated_at |-> now])
    /\ chat' = Executed(ch, SessionId(ch),
                        [status |-> "success",
                         message |-> "Profile deleted successfully!"])
    /\ UNCHANGED <<Config, WebSearch, now, user_profiles, memories,
                   user_session>>

\* goal_setting: the goals parsed from the request replace the existing
\* ones where they are not blank
MergedGoals(existing_goals, new_goals) ==
    DictUpdate(existing_goals,
               [k \in {x \in DOMAIN new_goals : Strip(new_goals[x]) # <<>>}
                  |-> Strip(new_goals[k])])

\* handle_tool_execution, goal_setting
GoalSetting(ch) ==
    /\ Pending(ch, "goal_setting", "")
    /\ Len(goals) < MaxRows
    /\ \E existing_goals \in get_goals(SessionId(ch)),
          new_goals \in ParsedGoals :
         /\ goals' = update_goals(SessionId(ch),
                                  MergedGoals(existing_goals, new_goals))
         /\ chat' = Executed(ch, SessionId(ch),
                             [status |-> "success",
                              goals |-> MergedGoals(existing_goals,
                                                    new_goals)])
    /\ UNCHANGED <<Config, WebSearch, now, user_profiles, memories,
                   user_session>>

\* CURRENT_TIMESTAMP moves on.  The clock is only read into the
\* updated_at of a goals row, so the steps counted are those after a time
\* at which a row was written
TickDatabase ==
    /\ \E i \in 1..Len(goals) : goals[i].updated_at = now
    /\ Tick

\* a fresh process with its default configuration; the memory service is
\* configured or not
InitProfile ==
    /\ InitSingletons
    /\ InitAssistant
    /\ memories \in {NoneV, [k \in SessionKeys |-> {}]}
    /\ call = [c \in Callers |-> Idle]
    /\ max_size = DefaultMaxSize
    /\ ttl_hours = DefaultTtlHours
    /\ max_requests = DefaultMaxRequests
    /\ window_minutes = DefaultWindowMinutes
    /\ api_key = TRUE

NextProfile ==
    \/ TickDatabase
    \/ \E ch \in Chats : OnChatStart(ch)
    \/ \E ch \in Chats, content \in Messages, fo \in ToolCalls \cup {NoneV} :
         OnMessage(ch, content, fo)
    \/ \E ch \in Chats : ProfileView(ch)
    \/ \E ch \in Chats : ProfileUpdate(ch)
    \/ \E ch \in Chats : ProfileDelete(ch)
    \/ \E ch \in Chats : GoalSetting(ch)

SpecProfile == InitProfile /\ [][NextProfile]_vars

-----------------------------------------------------------------------------
(* Properties of the profile tool and the chat handlers, under SpecProfile *)

\* the chat's latest function call was this one and reported success
Reported(ch, name, action) ==
    /\ chat[ch].pc = "idle"
    /\ chat[ch].result # NoneV
    /\ chat[ch].function_output.name = name
    /\ chat[ch].function_output.action = action
    /\ chat[ch].result.status = "success"

\* C29 as stated: after profile_management with action delete reports
\* success for a session, that session's stored profile is deleted (a
\* following view returns no profile fields) and the session's stored
\* dietary goals are the same as before the delete.
C29_AsStated ==
    \A ch \in Chats :
        Reported(ch, "profile_management", "delete")
        => /\ get_user_profile(chat[ch].session_id) = EmptyDict
           /\ get_goals(chat[ch].session_id) = chat[ch].goals0

\* C30 as stated: a user name auto-detected from a chat message is stored
\* under that chat's own session key: for every chat, including on its
\* first message, the name is what get_user_identity returns later in the
\* same chat, and the stored profile of no other chat is changed.
C30_AsStated ==
    \A ch \in Chats :
        chat[ch].auto_name # PyNone
        => /\ get_user_identity(SessionId(ch)) = {chat[ch].auto_name}
           /\ chat[ch].touched = {}

====
